---- MODULE Spec2Model ----
(***************************************************************************)
(* Model of src/main.py: the HospitalBillingSystem store (patients,        *)
(* services, bills, three next-id counters), its JSON file persistence     *)
(* (load_data / save_data) and the process life cycle around it (a process *)
(* may be interrupted at any point, also in the middle of save_data, and   *)
(* main() may be started again over the same file).                        *)
(*                                                                         *)
(* A Python dict is an insertion-ordered sequence of [key, val] entries.   *)
(* An object is a record carrying its class in the field cls; the dict     *)
(* made by to_dict has no cls field.  The file is a sequence of chunks as  *)
(* json.dump writes them; json.load accepts only a complete document.      *)
(***************************************************************************)
EXTENDS Integers, Sequences, FiniteSets, TLC

\* ------------------------------------------------------------------ bounds
\* the number of records (patients, services and bills together) a store holds
MaxRecords == 4

\* ------------------------------------------------------------------ inputs
PatientNames == {"ann"}
Contacts == {"c1"}
ServiceNames == {"xray"}
Prices == {50, 100}
Dates == {"d1"}
PatientIdArgs == {1, 2}
ServiceIdArgs == {1, 2, 3}
BillIdArgs == {1, 2}
\* the service_ids given to create_bill: empty, single, repeated, out of
\* order, and with ids that may not be registered in front, inside and behind
ServiceIdLists ==
    {<<>>, <<1>>, <<3>>, <<2, 1>>, <<1, 3>>, <<3, 2>>, <<3, 3>>, <<1, 2, 2>>, <<2, 3, 2>>}

\* patients, services, bills: the three registries of the store (dicts)
\* next_patient_id, next_service_id, next_bill_id: the three counters
\* file: the data file, [exists, text], text being the chunks written so far
\* pc: "idle" between calls, "saving" inside save_data, "dead" after an
\*     interruption, "failed" when __init__ raised
\* buf: the chunks save_data has still to write
\* saved: the registries serialized by the last save_data (history)
\* old_file: the file as the running save_data found it (history)
\* call: the last call, see Call
VARIABLES patients, services, bills,
          next_patient_id, next_service_id, next_bill_id,
          file, pc, buf, saved, old_file, call

store_vars == <<patients, services, bills, next_patient_id, next_service_id, next_bill_id>>
vars == <<patients, services, bills, next_patient_id, next_service_id, next_bill_id,
          file, pc, buf, saved, old_file, call>>

\* ------------------------------------------------------------ Python values
None == [cls |-> "NoneType"]

\* dict.get(k): the value stored under k, or None
DictGet(d, k) ==
    IF \E i \in 1 .. Len(d) : d[i].key = k
    THEN d[CHOOSE i \in 1 .. Len(d) : d[i].key = k].val
    ELSE None

\* k in d
DictHas(d, k) == \E i \in 1 .. Len(d) : d[i].key = k

\* d[k] = v: replaces the value in place when k is present, appends otherwise
DictSet(d, k, v) ==
    IF DictHas(d, k)
    THEN [i \in 1 .. Len(d) |-> IF d[i].key = k THEN [key |-> k, val |-> v] ELSE d[i]]
    ELSE Append(d, [key |-> k, val |-> v])

\* list(d.keys()) and list(d.values())
DictKeys(d) == [i \in 1 .. Len(d) |-> d[i].key]
DictValues(d) == [i \in 1 .. Len(d) |-> d[i].val]

\* {keyOf(x): x for x in list}, entries inserted left to right
RECURSIVE DictFromList(_)
DictFromList(entries) ==
    IF entries = <<>> THEN <<>>
    ELSE LET n == Len(entries)
         IN DictSet(DictFromList(SubSeq(entries, 1, n - 1)), entries[n].key, entries[n].val)

\* max(list) for a non-empty list of integers
RECURSIVE PyMax(_)
PyMax(s) ==
    IF Len(s) = 1 THEN s[1]
    ELSE LET m == PyMax(Tail(s)) IN IF s[1] >= m THEN s[1] ELSE m

\* --------------------------------------------------------------- data model
Patient(patient_id, name, contact) ==
    [cls |-> "Patient", patient_id |-> patient_id, name |-> name, contact |-> contact]

Patient_to_dict(p) ==
    [patient_id |-> p.patient_id, name |-> p.name, contact |-> p.contact]

Patient_from_dict(data) == Patient(data.patient_id, data.name, data.contact)

Service(service_id, name, price) ==
    [cls |-> "Service", service_id |-> service_id, name |-> name, price |-> price]

Service_to_dict(s) ==
    [service_id |-> s.service_id, name |-> s.name, price |-> s.price]

Service_from_dict(data) == Service(data.service_id, data.name, data.price)

\* sum(iterable) over a list of numbers, left to right from 0
RECURSIVE PySum(_)
PySum(s) == IF s = <<>> THEN 0 ELSE PySum(SubSeq(s, 1, Len(s) - 1)) + s[Len(s)]

\* a plausible slip: each distinct service of the bill is counted once
calculate_total_Distinct(services_rendered) ==
    LET n == Len(services_rendered)
        first == SelectSeq([i \in 1 .. n |-> i],
                           LAMBDA i : \A j \in 1 .. (i - 1) :
                                          services_rendered[j] # services_rendered[i])
    IN PySum([k \in 1 .. Len(first) |-> services_rendered[first[k]].price])

\* sum(service.price for service in self.services_rendered)
calculate_total(services_rendered) ==
    PySum([i \in 1 .. Len(services_rendered) |-> services_rendered[i].price])

Bill(bill_id, patient_id, services_rendered, bill_date) ==
    [cls |-> "Bill", bill_id |-> bill_id, patient_id |-> patient_id,
     services_rendered |-> services_rendered, bill_date |-> bill_date,
     total_amount |-> calculate_total(services_rendered)]

Bill_to_dict(b) ==
    [bill_id |-> b.bill_id, patient_id |-> b.patient_id,
     services_rendered |-> [i \in 1 .. Len(b.services_rendered) |->
                               Service_to_dict(b.services_rendered[i])],
     bill_date |-> b.bill_date, total_amount |-> b.total_amount]

\* a plausible slip: the embedded services are rebuilt back to front
Bill_from_dict_Reversed(data) ==
    LET n == Len(data.services_rendered)
        svcs == [i \in 1 .. n |-> Service_from_dict(data.services_rendered[n + 1 - i])]
    IN Bill(data.bill_id, data.patient_id, svcs, data.bill_date)

\* the stored total_amount is not read: Bill() recomputes it
Bill_from_dict(data) ==
    LET svcs == [i \in 1 .. Len(data.services_rendered) |->
                    Service_from_dict(data.services_rendered[i])]
    IN Bill(data.bill_id, data.patient_id, svcs, data.bill_date)

\* -------------------------------------------------------------- persistence
\* json.dump(data, f, indent=4): the chunks written to f, in order.  A chunk
\* is the opening brace, one record of one of the three arrays, or the
\* closing brace.
Chunk(t, v) == [t |-> t, v |-> v]
OpenBrace == [t |-> "{"]
CloseBrace == [t |-> "}"]
json_dump(data) ==
    <<OpenBrace>>
    \o [i \in 1 .. Len(data.patients) |-> Chunk("patients", data.patients[i])]
    \o [i \in 1 .. Len(data.services) |-> Chunk("services", data.services[i])]
    \o [i \in 1 .. Len(data.bills) |-> Chunk("bills", data.bills[i])]
    \o <<CloseBrace>>

\* json.load(f): a document is accepted only when it is complete, from the
\* opening brace to the closing one; anything else raises JSONDecodeError.
json_valid(text) ==
    /\ Len(text) >= 2
    /\ text[1] = OpenBrace
    /\ text[Len(text)] = CloseBrace
    /\ \A i \in 2 .. (Len(text) - 1) : text[i].t \in {"patients", "services", "bills"}

\* data.get(name, []) of the parsed document
json_array(text, name) ==
    LET hits == SelectSeq(text, LAMBDA c : c.t = name)
    IN [i \in 1 .. Len(hits) |-> hits[i].v]

\* a plausible slip: the default of the maximum is 0 (an empty registry gives 1)
NextId_DefaultZero(keys) == PyMax(keys \o <<0>>) + 1

\* a plausible slip: the next id is the largest id itself
NextId_NoIncrement(keys) == PyMax(keys \o <<1>>)

\* max([k for k in d.keys()] + [1]) + 1
NextId(keys) == PyMax(keys \o <<1>>) + 1

\* the dict that save_data builds from the three registries
SaveDoc(ps, ss, bs) ==
    [patients |-> [i \in 1 .. Len(ps) |-> Patient_to_dict(DictValues(ps)[i])],
     services |-> [i \in 1 .. Len(ss) |-> Service_to_dict(DictValues(ss)[i])],
     bills |-> [i \in 1 .. Len(bs) |-> Bill_to_dict(DictValues(bs)[i])]]

\* the fields of a store made by __init__ before load_data runs
EmptyStore ==
    [patients |-> <<>>, services |-> <<>>, bills |-> <<>>,
     next_patient_id |-> 1, next_service_id |-> 1, next_bill_id |-> 1]

\* load_data on a fresh store: the fields afterwards and whether it raised
load_data(f) ==
    IF ~f.exists THEN [raised |-> FALSE, store |-> EmptyStore]
    ELSE IF ~json_valid(f.text) THEN [raised |-> TRUE, store |-> EmptyStore]
    ELSE LET pl == json_array(f.text, "patients")
             sl == json_array(f.text, "services")
             bl == json_array(f.text, "bills")
             ps == DictFromList([i \in 1 .. Len(pl) |->
                       [key |-> pl[i].patient_id, val |-> Patient_from_dict(pl[i])]])
             ss == DictFromList([i \in 1 .. Len(sl) |->
                       [key |-> sl[i].service_id, val |-> Service_from_dict(sl[i])]])
             bs == DictFromList([i \in 1 .. Len(bl) |->
                       [key |-> bl[i].bill_id, val |-> Bill_from_dict(bl[i])]])
         IN [raised |-> FALSE,
             store |-> [patients |-> ps, services |-> ss, bills |-> bs,
                        next_patient_id |-> NextId(DictKeys(ps)),
                        next_service_id |-> NextId(DictKeys(ss)),
                        next_bill_id |-> NextId(DictKeys(bs))]]

\* ------------------------------------------------------------------- state
Store ==
    [patients |-> patients, services |-> services, bills |-> bills,
     next_patient_id |-> next_patient_id, next_service_id |-> next_service_id,
     next_bill_id |-> next_bill_id]

Registries(st) == [patients |-> st.patients, services |-> st.services, bills |-> st.bills]

SetStore(st) ==
    /\ patients' = st.patients
    /\ services' = st.services
    /\ bills' = st.bills
    /\ next_patient_id' = st.next_patient_id
    /\ next_service_id' = st.next_service_id
    /\ next_bill_id' = st.next_bill_id

\* the record of the last call: the operation, its arguments, what it
\* returned, what it printed and the store as it was when the call began
Call(op, args, ret, out) == [op |-> op, args |-> args, ret |-> ret, out |-> out, pre |-> Store]

Msg(text, arg) == [text |-> text, arg |-> arg]

\* ----------------------------------------------------------------- billing
\* a plausible slip: the loop stops at the first id that does not resolve
Resolve_StopAtUnknown(svcs, service_ids) ==
    LET bad == {i \in 1 .. Len(service_ids) : ~DictHas(svcs, service_ids[i])}
        upto == IF bad = {} THEN Len(service_ids)
                ELSE (CHOOSE i \in bad : \A j \in bad : i <= j) - 1
    IN [i \in 1 .. upto |-> DictGet(svcs, service_ids[i])]

\* the loop of create_bill: services_to_bill, one entry per id that
\* get_service resolves, in the order given
Resolve(svcs, service_ids) ==
    LET found == SelectSeq(service_ids, LAMBDA s_id : DictGet(svcs, s_id) # None)
    IN [i \in 1 .. Len(found) |-> DictGet(svcs, found[i])]

\* the warnings printed by the loop of create_bill
Warnings(svcs, service_ids) ==
    LET missing == SelectSeq(service_ids, LAMBDA s_id : DictGet(svcs, s_id) = None)
    IN [i \in 1 .. Len(missing) |-> Msg("Warning: Service not found. Skipping.", missing[i])]

\* a plausible slip: the bill id is taken before the arguments are checked
create_bill_EagerId(st, patient_id, service_ids, now) ==
    LET services_to_bill == Resolve(st.services, service_ids)
        bill_id == st.next_bill_id
        taken == [st EXCEPT !.next_bill_id = bill_id + 1]
    IN IF ~DictHas(st.patients, patient_id)
       THEN [ret |-> None, store |-> taken,
             out |-> <<Msg("Error: Patient not found.", patient_id)>>]
       ELSE IF services_to_bill = <<>>
       THEN [ret |-> None, store |-> taken,
             out |-> Warnings(st.services, service_ids)
                     \o <<Msg("Error: No valid services provided for the bill.", None)>>]
       ELSE LET bill == Bill(bill_id, patient_id, services_to_bill, now)
            IN [ret |-> bill,
                store |-> [taken EXCEPT !.bills = DictSet(st.bills, bill_id, bill)],
                out |-> Warnings(st.services, service_ids)
                        \o <<Msg("Bill created", bill_id)>>]

\* a plausible slip: the check for an empty list of services is missing
create_bill_NoEmptyCheck(st, patient_id, service_ids, now) ==
    LET services_to_bill == Resolve(st.services, service_ids)
        bill_id == st.next_bill_id
        bill == Bill(bill_id, patient_id, services_to_bill, now)
    IN IF ~DictHas(st.patients, patient_id)
       THEN [ret |-> None, store |-> st,
             out |-> <<Msg("Error: Patient not found.", patient_id)>>]
       ELSE [ret |-> bill,
             store |-> [st EXCEPT !.bills = DictSet(st.bills, bill_id, bill),
                                  !.next_bill_id = bill_id + 1],
             out |-> Warnings(st.services, service_ids)
                     \o <<Msg("Bill created", bill_id)>>]

\* create_bill on the store st at time now: what it returns, the store
\* afterwards and what it prints
create_bill(st, patient_id, service_ids, now) ==
    LET services_to_bill == Resolve(st.services, service_ids)
        bill_id == st.next_bill_id
        bill == Bill(bill_id, patient_id, services_to_bill, now)
    IN IF ~DictHas(st.patients, patient_id)
       THEN [ret |-> None, store |-> st,
             out |-> <<Msg("Error: Patient not found.", patient_id)>>]
       ELSE IF services_to_bill = <<>>
       THEN [ret |-> None, store |-> st,
             out |-> Warnings(st.services, service_ids)
                     \o <<Msg("Error: No valid services provided for the bill.", None)>>]
       ELSE [ret |-> bill,
             store |-> [st EXCEPT !.bills = DictSet(st.bills, bill_id, bill),
                                  !.next_bill_id = bill_id + 1],
             out |-> Warnings(st.services, service_ids)
                     \o <<Msg("Bill created", bill_id)>>]

\* list_patients, list_services, list_bills: every path returns None; the
\* records are only printed
list_registry(d, emptyText) ==
    [ret |-> None,
     out |-> IF d = <<>> THEN <<Msg(emptyText, None)>>
             ELSE [i \in 1 .. Len(d) |-> Msg("record", DictValues(d)[i])]]

\* ------------------------------------------------------------------ actions
NoFile == [exists |-> FALSE, text |-> <<>>]

\* main() on a machine where the data file does not exist yet
Init ==
    /\ patients = <<>>
    /\ services = <<>>
    /\ bills = <<>>
    /\ next_patient_id = 1
    /\ next_service_id = 1
    /\ next_bill_id = 1
    /\ file = NoFile
    /\ pc = "idle"
    /\ buf = <<>>
    /\ saved = Registries(EmptyStore)
    /\ old_file = NoFile
    /\ call = [op |-> "__init__", args |-> <<>>, ret |-> None,
               out |-> <<Msg("Data loaded successfully.", None)>>, pre |-> EmptyStore]

AddPatient ==
    /\ pc = "idle"
    /\ Len(patients) + Len(services) + Len(bills) < MaxRecords
    /\ \E name \in PatientNames, contact \in Contacts :
         LET patient_id == next_patient_id
             patient == Patient(patient_id, name, contact)
         IN /\ patients' = DictSet(patients, patient_id, patient)
            /\ next_patient_id' = next_patient_id + 1
            /\ call' = Call("add_patient", <<name, contact>>, None,
                            <<Msg("Patient added", patient_id)>>)
    /\ UNCHANGED <<services, bills, next_service_id, next_bill_id, file, pc, buf, saved, old_file>>

AddService ==
    /\ pc = "idle"
    /\ Len(patients) + Len(services) + Len(bills) < MaxRecords
    /\ \E name \in ServiceNames, price \in Prices :
         LET service_id == next_service_id
             service == Service(service_id, name, price)
         IN /\ services' = DictSet(services, service_id, service)
            /\ next_service_id' = next_service_id + 1
            /\ call' = Call("add_service", <<name, price>>, None,
                            <<Msg("Service added", service_id)>>)
    /\ UNCHANGED <<patients, bills, next_patient_id, next_bill_id, file, pc, buf, saved, old_file>>

CreateBill ==
    /\ pc = "idle"
    /\ Len(patients) + Len(services) + Len(bills) < MaxRecords
    /\ \E patient_id \in PatientIdArgs, service_ids \in ServiceIdLists, now \in Dates :
         LET r == create_bill(Store, patient_id, service_ids, now)
         IN /\ SetStore(r.store)
            /\ call' = Call("create_bill", <<patient_id, service_ids>>, r.ret, r.out)
    /\ UNCHANGED <<file, pc, buf, saved, old_file>>

GetPatient ==
    /\ pc = "idle"
    /\ \E patient_id \in PatientIdArgs :
         call' = Call("get_patient", <<patient_id>>, DictGet(patients, patient_id), <<>>)
    /\ UNCHANGED <<store_vars, file, pc, buf, saved, old_file>>

GetService ==
    /\ pc = "idle"
    /\ \E service_id \in ServiceIdArgs :
         call' = Call("get_service", <<service_id>>, DictGet(services, service_id), <<>>)
    /\ UNCHANGED <<store_vars, file, pc, buf, saved, old_file>>

GetBill ==
    /\ pc = "idle"
    /\ \E bill_id \in BillIdArgs :
         call' = Call("get_bill", <<bill_id>>, DictGet(bills, bill_id), <<>>)
    /\ UNCHANGED <<store_vars, file, pc, buf, saved, old_file>>

ListPatients ==
    /\ pc = "idle"
    /\ LET r == list_registry(patients, "No patients registered.")
       IN call' = Call("list_patients", <<>>, r.ret, r.out)
    /\ UNCHANGED <<store_vars, file, pc, buf, saved, old_file>>

ListServices ==
    /\ pc = "idle"
    /\ LET r == list_registry(services, "No services available.")
       IN call' = Call("list_services", <<>>, r.ret, r.out)
    /\ UNCHANGED <<store_vars, file, pc, buf, saved, old_file>>

ListBills ==
    /\ pc = "idle"
    /\ LET r == list_registry(bills, "No bills created yet.")
       IN call' = Call("list_bills", <<>>, r.ret, r.out)
    /\ UNCHANGED <<store_vars, file, pc, buf, saved, old_file>>

\* save_data, first step: data is built and open(self.data_file, 'w')
\* creates the file or truncates it to length 0
SaveOpen ==
    /\ pc = "idle"
    /\ pc' = "saving"
    /\ buf' = json_dump(SaveDoc(patients, services, bills))
    /\ file' = [exists |-> TRUE, text |-> <<>>]
    /\ saved' = Registries(Store)
    /\ old_file' = file
    /\ call' = Call("save_data", <<>>, None, <<>>)
    /\ UNCHANGED store_vars

\* save_data, json.dump: the next chunk reaches the file
SaveWrite ==
    /\ pc = "saving"
    /\ buf # <<>>
    /\ file' = [file EXCEPT !.text = Append(@, Head(buf))]
    /\ buf' = Tail(buf)
    /\ UNCHANGED <<store_vars, pc, saved, old_file, call>>

\* save_data, last step: the with block closes the file and the call returns
SaveClose ==
    /\ pc = "saving"
    /\ buf = <<>>
    /\ pc' = "idle"
    /\ call' = [call EXCEPT !.out = <<Msg("Data saved successfully.", None)>>]
    /\ old_file' = NoFile
    /\ UNCHANGED <<store_vars, file, buf, saved>>

\* the process is interrupted in the middle of save_data: its memory is
\* gone, the file stays as far as it was written
Interrupt ==
    /\ pc = "saving"
    /\ pc' = "dead"
    /\ buf' = <<>>
    /\ SetStore(EmptyStore)
    /\ call' = [op |-> "interrupt", args |-> <<>>, ret |-> None, out |-> <<>>,
                pre |-> EmptyStore]
    /\ UNCHANGED <<file, saved, old_file>>

\* main() runs again over the same file (after an exit, or after an
\* interruption): HospitalBillingSystem() is __init__ followed by load_data
Restart ==
    /\ pc \in {"idle", "dead"}
    /\ LET r == load_data(file)
       IN /\ SetStore(r.store)
          /\ pc' = IF r.raised THEN "failed" ELSE "idle"
          /\ call' = [op |-> "__init__", args |-> <<>>,
                      ret |-> IF r.raised THEN [cls |-> "JSONDecodeError"] ELSE None,
                      out |-> IF r.raised THEN <<>>
                              ELSE <<Msg("Data loaded successfully.", None)>>,
                      pre |-> EmptyStore]
    /\ old_file' = NoFile
    /\ UNCHANGED <<file, buf, saved>>

Next ==
    \/ AddPatient
    \/ AddService
    \/ CreateBill
    \/ GetPatient
    \/ GetService
    \/ GetBill
    \/ ListPatients
    \/ ListServices
    \/ ListBills
    \/ SaveOpen
    \/ SaveWrite
    \/ SaveClose
    \/ Interrupt
    \/ Restart

Spec == Init /\ [][Next]_vars

\* ------------------------------------------------------------------ claims
\* helpers of the statements below
KeySet(d) == {d[i].key : i \in 1 .. Len(d)}
Occurrences(seq, x) == Cardinality({j \in 1 .. Len(seq) : seq[j] = x})
MaxOf(S) == CHOOSE m \in S : \A x \in S : x <= m
RECURSIVE SumOver(_, _)
SumOver(S, f) ==
    IF S = {} THEN 0 ELSE LET x == CHOOSE y \in S : TRUE IN f[x] + SumOver(S \ {x}, f)
RECURSIVE SumLeft(_)
SumLeft(items) == IF items = <<>> THEN 0 ELSE items[1].price + SumLeft(Tail(items))
CompleteFile(regs) ==
    [exists |-> TRUE, text |-> json_dump(SaveDoc(regs.patients, regs.services, regs.bills))]
EmptyList == [cls |-> "list", items |-> <<>>]

\* C1: when the process is interrupted during save_data, the file afterwards
\* is the complete previous snapshot (or still absent) or the complete new
\* snapshot, never an empty or partly written document.
SaveIsAtomic ==
    pc = "dead" => (file = old_file \/ file = CompleteFile(saved))

\* C2: a store made over a file that save_data wrote holds patient, service
\* and bill registries equal, field for field and in the same order, to the
\* registries that were saved.
RoundTrip ==
    (call.op = "__init__" /\ call.ret = None /\ file.exists)
        => Registries(Store) = saved

RoundTripWitness ==
    /\ call.op = "__init__"
    /\ call.ret = None
    /\ file.exists
    /\ patients # <<>>
    /\ \E i \in 1 .. Len(bills) :
         LET items == bills[i].val.services_rendered
         IN Len(items) >= 2 /\ items[1] # items[2]

\* C3: the id add_patient assigns is 1 when no patient exists yet and the
\* largest patient id plus one otherwise, also in a store that was reloaded
\* from a file saved while empty.
PatientIdsStartAtOne ==
    call.op = "add_patient" =>
        call.out[1].arg = (IF call.pre.patients = <<>> THEN 1
                           ELSE MaxOf(KeySet(call.pre.patients)) + 1)

\* C4: create_bill returns None when the patient is unknown or when no given
\* service id resolves, and a call that returns None leaves the three
\* registries and the three counters as they were.
FailedCreateBillChangesNothing ==
    call.op = "create_bill" =>
        LET patient_id == call.args[1]
            service_ids == call.args[2]
            unknownPatient == patient_id \notin KeySet(call.pre.patients)
            noneResolves == \A j \in 1 .. Len(service_ids) :
                                service_ids[j] \notin KeySet(call.pre.services)
        IN /\ (unknownPatient \/ noneResolves) => call.ret = None
           /\ call.ret = None => Store = call.pre

FailedCreateBillWitness ==
    /\ call.op = "create_bill"
    /\ call.ret = None
    /\ call.args[1] \in KeySet(call.pre.patients)
    /\ call.args[2] # <<>>
    /\ call.pre.services # <<>>

\* the example of C5: services 1 at 100 and 2 at 50, billed with [1, 2, 2]
BillExample ==
    /\ call.op = "create_bill"
    /\ call.args[1] \in KeySet(call.pre.patients)
    /\ call.args[2] = <<1, 2, 2>>
    /\ KeySet(call.pre.services) = {1, 2}
    /\ DictGet(call.pre.services, 1).price = 100
    /\ DictGet(call.pre.services, 2).price = 50

\* the general part of C5: the total is the sum of the prices of the line
\* items in order, and a registered id that occurs k times is billed k times
BillTotalIsSum ==
    (call.op = "create_bill" /\ call.ret # None) =>
        LET bill == call.ret
            service_ids == call.args[2]
            reg == call.pre.services
            known == KeySet(reg)
            times == [k \in known |-> Occurrences(service_ids, k)]
            cost == [k \in known |-> DictGet(reg, k).price * times[k]]
        IN /\ bill.total_amount = SumLeft(bill.services_rendered)
           /\ bill.total_amount = SumOver(known, cost)
           /\ \A k \in known :
                Occurrences(bill.services_rendered, DictGet(reg, k)) = times[k]
           /\ Len(bill.services_rendered) = SumOver(known, times)

\* C5 as stated: the bill create_bill returns has total_amount equal to the
\* sum of the prices of its line items in order, a registered service id that
\* occurs k times in service_ids is billed k times, and the example gives 3
\* line items and a total of 250.
BillTotalAsStated ==
    /\ BillTotalIsSum
    /\ BillExample =>
          /\ call.ret # None
          /\ Len(call.ret.services_rendered) = 3
          /\ call.ret.total_amount = 250

\* C5, amended: as stated, except that the example gives 3 line items and a
\* total of 200 (100 + 50 + 50).
BillTotal ==
    /\ BillTotalIsSum
    /\ BillExample =>
          /\ call.ret # None
          /\ Len(call.ret.services_rendered) = 3
          /\ call.ret.total_amount = 200

BillTotalWitness ==
    /\ BillExample
    /\ call.ret # None
    /\ call.ret.services_rendered[2] = call.ret.services_rendered[3]

\* C6: for a known patient and service ids of which some are registered and
\* some are not, create_bill returns a bill whose line items are the
\* registered ids in the given order, stores it under the next_bill_id of
\* before the call and raises next_bill_id by one.
PartialResolution ==
    LET patient_id == call.args[1]
        service_ids == call.args[2]
        known == KeySet(call.pre.services)
        resolved == SelectSeq(service_ids, LAMBDA s_id : s_id \in known)
    IN (/\ call.op = "create_bill"
        /\ patient_id \in KeySet(call.pre.patients)
        /\ \E j \in 1 .. Len(service_ids) : service_ids[j] \in known
        /\ \E j \in 1 .. Len(service_ids) : service_ids[j] \notin known)
       => /\ call.ret # None
          /\ Len(call.ret.services_rendered) = Len(resolved)
          /\ \A i \in 1 .. Len(resolved) :
               call.ret.services_rendered[i] = DictGet(call.pre.services, resolved[i])
          /\ call.ret.bill_id = call.pre.next_bill_id
          /\ call.ret.patient_id = patient_id
          /\ bills = Append(call.pre.bills,
                            [key |-> call.pre.next_bill_id, val |-> call.ret])
          /\ next_bill_id = call.pre.next_bill_id + 1

PartialResolutionWitness ==
    /\ call.op = "create_bill"
    /\ call.ret # None
    /\ LET service_ids == call.args[2]
           known == KeySet(call.pre.services)
       IN \E i, j \in 1 .. Len(service_ids) :
            i < j /\ service_ids[i] \notin known /\ service_ids[j] \in known

\* C7: every bill of the bill registry, made by create_bill or rebuilt by
\* load_data, has at least one line item.
BillsHaveLineItems ==
    \A i \in 1 .. Len(bills) : bills[i].val.services_rendered # <<>>

BillsHaveLineItemsWitness ==
    /\ call.op = "__init__"
    /\ file.exists
    /\ bills # <<>>

\* C8: a list operation on an empty registry returns an empty sequence,
\* which differs from the None that a get operation returns for an unknown id.
EmptyListingIsNotNotFound ==
    LET registry == [list_patients |-> call.pre.patients,
                     list_services |-> call.pre.services,
                     list_bills |-> call.pre.bills]
    IN (call.op \in DOMAIN registry /\ registry[call.op] = <<>>)
        => (call.ret = EmptyList /\ call.ret # None)

\* C9: a store made over an existing file has each counter at the largest
\* id of its registry plus one, and at 2 for a registry loaded empty; a
\* store made where no file exists has empty registries, all counters at 1,
\* and its construction raises nothing.
ExpectedCounter(d) == IF d = <<>> THEN 2 ELSE MaxOf(KeySet(d)) + 1
CountersAfterLoad ==
    call.op = "__init__" =>
        /\ (file.exists /\ call.ret = None) =>
              /\ next_patient_id = ExpectedCounter(patients)
              /\ next_service_id = ExpectedCounter(services)
              /\ next_bill_id = ExpectedCounter(bills)
        /\ ~file.exists =>
              /\ call.ret = None
              /\ patients = <<>> /\ services = <<>> /\ bills = <<>>
              /\ next_patient_id = 1 /\ next_service_id = 1 /\ next_bill_id = 1

CountersAfterLoadWitness ==
    /\ call.op = "__init__"
    /\ file.exists
    /\ call.ret = None
    /\ patients # <<>>
    /\ bills = <<>>
    /\ next_bill_id = 2

\* C10: each counter is greater than every id of its own registry, no id is
\* held twice, and a successful create appends one record under the counter
\* of before the call and raises that counter alone, by one.
Grows(after, before, counter) ==
    /\ Len(after) = Len(before) + 1
    /\ SubSeq(after, 1, Len(before)) = before
    /\ after[Len(after)].key = counter
    /\ counter \notin KeySet(before)
IdsNeverReused ==
    /\ \A k \in KeySet(patients) : k < next_patient_id
    /\ \A k \in KeySet(services) : k < next_service_id
    /\ \A k \in KeySet(bills) : k < next_bill_id
    /\ Cardinality(KeySet(patients)) = Len(patients)
    /\ Cardinality(KeySet(services)) = Len(services)
    /\ Cardinality(KeySet(bills)) = Len(bills)
    /\ call.op = "add_patient" =>
          /\ Grows(patients, call.pre.patients, call.pre.next_patient_id)
          /\ Store = [call.pre EXCEPT !.patients = patients,
                                      !.next_patient_id = @ + 1]
    /\ call.op = "add_service" =>
          /\ Grows(services, call.pre.services, call.pre.next_service_id)
          /\ Store = [call.pre EXCEPT !.services = services,
                                      !.next_service_id = @ + 1]
    /\ (call.op = "create_bill" /\ call.ret # None) =>
          /\ Grows(bills, call.pre.bills, call.pre.next_bill_id)
          /\ Store = [call.pre EXCEPT !.bills = bills,
                                      !.next_bill_id = @ + 1]

IdsNeverReusedWitness ==
    /\ call.op = "add_patient"
    /\ call.pre.patients # <<>>
    /\ call.pre.next_patient_id = 3
    /\ file.exists

====
